---- MODULE Spec2Model ----
(***************************************************************************)
(* Task scheduler, rate limiter and worker pool of the Twitter bot         *)
(* (scheduler.py, worker_manager.py, config.py).                          *)
(*                                                                         *)
(* Time is counted in whole minutes (the unit of every rate limit in      *)
(* config.py); sleeps of a few seconds take no model time.  The code reads *)
(* a datetime only through its distance to datetime.now(), so a datetime   *)
(* field is held relative to now: an instant of the past (last_action,     *)
(* cycle_start) as the minutes elapsed since it, an instant to come        *)
(* (scheduled_for, rate_limited_until) as the minutes left until it.  A    *)
(* minute passing (Tick) moves every such field by one.  An elapsed time   *)
(* stops growing past the largest limit it is compared with.               *)
(***************************************************************************)
EXTENDS Integers, Sequences, FiniteSets, TLC

\* ------------------------------------------------------------------ bounds
\* The number of Task objects add_task creates in a run of Spec.
MaxTasks == 1
\* The number of Task objects add_task creates in a run of SpecQueue.
QueueTasks == 3
\* The number of Task objects add_task creates in a run of SpecWorker.
WorkerTasks == 1
\* The number of Task objects add_task creates in a run of SpecFanOut.
FanOutTasks == 2
\* The number of Task objects add_task creates in a run of SpecDelay.
DelayTasks == 2
\* The number of Task objects add_task creates in a run of SpecLoops.
LoopTasks == 3
\* The number of Task objects add_task creates in a run of SpecSync.
SyncTasks == 2
\* The number of Task objects add_task creates in a run of SpecBypass.
BypassTasks == 4
\* The number of Task objects add_task creates in a run of SpecCleanup.
CleanupTasks == 2
\* The number of Task objects add_task creates in a run of SpecIds.
IdTasks == 3
\* The greatest draw of random.randint in a run of SpecIds.
LastDraw == 1001
\* The number of Task objects add_task creates in a run of SpecRetry.
RetryTasks == 2
\* The minutes past its scheduled_for up to which a run of SpecRetry tells how
\* long a task is overdue.
OverdueMinutes == 1
\* The number of Task objects add_task creates in a run of SpecRaise.
RaiseTasks == 2
\* Config.TASK_QUEUE_SIZE is read from the environment (default 1000); the
\* model runs the queue with a small capacity.
TASK_QUEUE_SIZE == 2

\* ------------------------------------------------------- program constants
LIKE_INTERVAL_MINUTES == 2
LIKE_BREAK_MINUTES == 10
COMMENT_MIN_INTERVAL == 10
QUOTE_CYCLE_MIN == 10
QUOTE_CYCLE_MAX == 20
RATE_LIMIT_PAUSE_MINUTES == 20
\* Task.max_retries
max_retries == 3
\* timedelta(minutes=5) in _execute_task
RetryDelayMinutes == 5
\* timedelta(hours=1) in _cleanup_completed_tasks, in minutes
RetentionMinutes == 60
\* random.randint(1000, 9999) in add_task: the least draw
FirstDraw == 1000

\* Config.get_rate_limits()
rate_limits ==
  [ like_interval |-> LIKE_INTERVAL_MINUTES,
    like_break    |-> LIKE_BREAK_MINUTES,
    comment_min   |-> COMMENT_MIN_INTERVAL,
    quote_min     |-> QUOTE_CYCLE_MIN,
    quote_max     |-> QUOTE_CYCLE_MAX,
    rate_limit_pause |-> RATE_LIMIT_PAUSE_MINUTES ]

\* Python's None for a datetime field, and for "no task in hand".
None == -100

\* TaskType
TaskType == {"like", "comment", "retweet", "quote", "follow", "unfollow", "sync_follows"}

\* TaskStatus
TaskStatus == {"pending", "in_progress", "completed", "failed", "cancelled"}

\* The bot ids of the accounts that can be registered, in a fixed order.
BotIds == {1, 2}

\* The coroutines start() can create for _process_tasks.
LoopIds == {1, 2}

\* The coroutine of a run in which start() is called once.
FirstLoop == {1}

\* Identity of the dispatch loop among the coroutines blocked in Queue.put.
LoopPutter(l) == 0 - l

VARIABLES
  rate_limiter,  \* RateLimiter fields
  tasks,         \* the Task objects created so far, by creation number
  task_queue,    \* TaskScheduler.task_queue (asyncio.Queue): creation numbers
  putters,       \* coroutines suspended in task_queue.put, in arrival order
  woken,         \* suspended putters whose future was resolved by a get
  active_tasks,  \* TaskScheduler.active_tasks
  is_running,    \* TaskScheduler.is_running
  workers,       \* WorkerManager.workers: bot ids in dict order
  wstate,        \* the TwitterWorker object of each bot id
  loop,          \* per _process_tasks coroutine: position and locals
  hist           \* observations of the run used to state the properties

vars == << rate_limiter, tasks, task_queue, putters, woken, active_tasks,
           is_running, workers, wstate, loop, hist >>

\* The kinds the RateLimiter paces.
RateLimited == {"like", "comment", "retweet", "quote"}

\* ------------------------------------------------------------ RateLimiter
\* RateLimiter.__init__
RateLimiterInit ==
  [ like_last_action    |-> None,
    comment_last_action |-> None,
    retweet_last_action |-> None,
    quote_last_action   |-> None,
    like_cycle_start    |-> None,
    retweet_cycle_start |-> None,
    quote_cycle_start   |-> None ]

\* RateLimiter.can_perform_like: the value returned and the limiter it
\* leaves (the check may clear like_cycle_start).  time_since_cycle and
\* time_since_last are the fields themselves.
can_perform_like(rl) ==
  LET inBreak ==
        /\ rl.like_cycle_start # None
        /\ rl.like_cycle_start > rate_limits.like_break
        /\ rl.like_last_action # None
      rl1 == IF inBreak /\ ~(rl.like_last_action < rate_limits.like_break)
             THEN [rl EXCEPT !.like_cycle_start = None]
             ELSE rl
  IN  IF inBreak /\ rl.like_last_action < rate_limits.like_break
      THEN [result |-> FALSE, rl |-> rl]
      ELSE IF rl1.like_last_action # None
              /\ rl1.like_last_action < rate_limits.like_interval
           THEN [result |-> FALSE, rl |-> rl1]
           ELSE [result |-> TRUE, rl |-> rl1]

\* RateLimiter.can_perform_comment
can_perform_comment(rl) ==
  IF rl.comment_last_action # None
     /\ rl.comment_last_action < rate_limits.comment_min
  THEN [result |-> FALSE, rl |-> rl]
  ELSE [result |-> TRUE, rl |-> rl]

\* RateLimiter.can_perform_retweet
can_perform_retweet(rl) == can_perform_like(rl)

\* RateLimiter.can_perform_quote
can_perform_quote(rl) ==
  LET inBreak ==
        /\ rl.quote_cycle_start # None
        /\ rl.quote_cycle_start > rate_limits.quote_max
        /\ rl.quote_last_action # None
      rl1 == IF inBreak /\ ~(rl.quote_last_action < rate_limits.quote_min)
             THEN [rl EXCEPT !.quote_cycle_start = None]
             ELSE rl
  IN  IF inBreak /\ rl.quote_last_action < rate_limits.quote_min
      THEN [result |-> FALSE, rl |-> rl]
      ELSE IF rl1.quote_last_action # None
              /\ rl1.quote_last_action < rate_limits.quote_min
           THEN [result |-> FALSE, rl |-> rl1]
           ELSE [result |-> TRUE, rl |-> rl1]

\* A record of a like that counts as a quote too.
record_like_action_counts_as_quote(rl) ==
  [rl EXCEPT !.like_last_action = 0,
             !.like_cycle_start = IF @ = None THEN 0 ELSE @,
             !.quote_last_action = 0,
             !.quote_cycle_start = IF @ = None THEN 0 ELSE @]

\* RateLimiter.record_like_action
record_like_action(rl) ==
  [rl EXCEPT !.like_last_action = 0,
             !.like_cycle_start = IF @ = None THEN 0 ELSE @]

\* RateLimiter.record_comment_action
record_comment_action(rl) == [rl EXCEPT !.comment_last_action = 0]

\* RateLimiter.record_retweet_action
record_retweet_action(rl) ==
  [rl EXCEPT !.retweet_last_action = 0,
             !.retweet_cycle_start = IF @ = None THEN 0 ELSE @]

\* RateLimiter.record_quote_action
record_quote_action(rl) ==
  [rl EXCEPT !.quote_last_action = 0,
             !.quote_cycle_start = IF @ = None THEN 0 ELSE @]

\* A sync handler that asks the RateLimiter as the like handler does.
HandlerCheckSyncAsLike(kind, rl) ==
  CASE kind \in {"like", "retweet", "sync_follows"} -> can_perform_like(rl)
    [] kind = "comment" -> can_perform_comment(rl)
    [] kind = "quote"   -> can_perform_quote(rl)
    [] OTHER            -> [result |-> TRUE, rl |-> rl]

\* The rate-limit check a handler of the kind makes first; follow and
\* sync_follows make none.
HandlerCheck(kind, rl) ==
  CASE kind = "like"    -> can_perform_like(rl)
    [] kind = "comment" -> can_perform_comment(rl)
    [] kind = "retweet" -> can_perform_retweet(rl)
    [] kind = "quote"   -> can_perform_quote(rl)
    [] OTHER            -> [result |-> TRUE, rl |-> rl]

\* The minutes since the last recorded action of the kind.
LastAction(kind, rl) ==
  CASE kind = "like"    -> rl.like_last_action
    [] kind = "comment" -> rl.comment_last_action
    [] kind = "retweet" -> rl.retweet_last_action
    [] kind = "quote"   -> rl.quote_last_action
    [] OTHER            -> None

\* The record call a handler of the kind makes after its fan-out returned.
HandlerRecord(kind, rl) ==
  CASE kind = "like"    -> record_like_action(rl)
    [] kind = "comment" -> record_comment_action(rl)
    [] kind = "retweet" -> record_retweet_action(rl)
    [] kind = "quote"   -> record_quote_action(rl)
    [] OTHER            -> rl

\* ---------------------------------------------------------------- workers
\* comment(): timedelta(minutes=30) after a 226/344 reply error
CommentSpamPauseMinutes == 30

\* TwitterWorker.__init__ followed by a successful initialize().
\* last_activity is compared with no limit: the minutes since it stay 0.
WorkerInit ==
  [ is_logged_in |-> TRUE, rate_limited_until |-> None, captcha_required |-> FALSE,
    last_activity |-> None ]

\* A bot id with no TwitterWorker object.
NoWorker ==
  [ is_logged_in |-> FALSE, rate_limited_until |-> None, captcha_required |-> FALSE,
    last_activity |-> None ]

\* A check that holds a rate-limited worker back until its
\* rate_limited_until is cleared.
can_perform_action_until_cleared(w) ==
  w.is_logged_in /\ ~w.captcha_required /\ w.rate_limited_until = None

\* A check that does not look at captcha_required.
can_perform_action_ignores_captcha(w) ==
  w.is_logged_in /\ ~(w.rate_limited_until # None /\ 0 < w.rate_limited_until)

\* TwitterWorker._can_perform_action
can_perform_action(w) ==
  IF ~w.is_logged_in THEN FALSE
  ELSE IF w.captcha_required THEN FALSE
  ELSE IF w.rate_limited_until # None /\ 0 < w.rate_limited_until THEN FALSE
  ELSE TRUE

\* WorkerManager.get_active_workers, in dict order
get_active_workers(ws, st) ==
  SelectSeq(ws, LAMBDA b : can_perform_action(st[b]))

\* What one worker action can end in, as the account client answers.
ActionOutcomes(kind) ==
  {"ok", "rate_limit", "captcha", "auth_rejected", "error"}
    \cup (IF kind = "comment" THEN {"spam_226"} ELSE {})

\* An error handler that notes a captcha and no rate limit.
WorkerAfterNoPause(w, kind, outcome) ==
  IF outcome = "captcha" /\ w.is_logged_in
  THEN [w EXCEPT !.captcha_required = TRUE]
  ELSE w

\* like_tweet / retweet / comment / quote_tweet / follow_user of one worker:
\* the worker it leaves (_handle_action_error on a failure).
\* A worker that an error other than a rate limit or a captcha logs out.
WorkerAfterErrorLogsOut(w, kind, outcome) ==
  IF ~can_perform_action(w) THEN w
  ELSE CASE outcome = "rate_limit" ->
              [w EXCEPT !.rate_limited_until = rate_limits.rate_limit_pause]
         [] outcome = "spam_226" ->
              [w EXCEPT !.rate_limited_until = CommentSpamPauseMinutes]
         [] outcome = "captcha" -> [w EXCEPT !.captcha_required = TRUE]
         [] outcome = "ok" -> [w EXCEPT !.last_activity = 0]
         [] OTHER -> [w EXCEPT !.is_logged_in = FALSE]

WorkerAfter(w, kind, outcome) ==
  IF ~can_perform_action(w) THEN w
  ELSE CASE outcome = "rate_limit" ->
              [w EXCEPT !.rate_limited_until = rate_limits.rate_limit_pause]
         [] outcome = "spam_226" ->
              [w EXCEPT !.rate_limited_until = CommentSpamPauseMinutes]
         [] outcome = "captcha" -> [w EXCEPT !.captcha_required = TRUE]
         [] outcome = "ok" -> [w EXCEPT !.last_activity = 0]
         [] OTHER -> w

\* The value the worker action returns.
WorkerResult(w, outcome) == can_perform_action(w) /\ outcome = "ok"

\* The sleep after each worker of a fan-out, in minutes: 2 s for likes and
\* retweets, COMMENT_MIN_INTERVAL + 2 i minutes for comments, QUOTE_CYCLE_MIN
\* minutes for quotes, none for follows.
FanOutDelay(kind, i) ==
  CASE kind = "comment" -> COMMENT_MIN_INTERVAL + (i * 2)
    [] kind = "quote"   -> QUOTE_CYCLE_MIN
    [] OTHER            -> 0

Occurrences(n, b) == [i \in 1..n |-> b]

RECURSIVE Flatten(_)
Flatten(ss) == IF ss = <<>> THEN <<>> ELSE Head(ss) \o Flatten(Tail(ss))

\* Database.add_bot writes a bot record with no "username" key, and nothing
\* adds one: what get_bot(bot_id).get("username") gives.
bot_username(b) == None

\* TwitterWorker.mutual_follow of worker b: the bot ids whose follow_user is
\* called, in call order: b once for every other bot whose record has a
\* username, when b passes _can_perform_action.
mutual_follow(b, other_bot_ids, st) ==
  IF ~can_perform_action(st[b]) THEN <<>>
  ELSE Occurrences(
         Len(SelectSeq(other_bot_ids, LAMBDA o : o # b /\ bot_username(o) # None)),
         b)

\* WorkerManager._sync_mutual_following: the bot ids whose follow_user is
\* called, in call order.
SyncCalls(ws, new_bot_id, st) ==
  LET others(b) == SelectSeq(ws, LAMBDA o : o # b)
      has(b) == \E i \in 1..Len(ws) : ws[i] = b
  IN  IF new_bot_id # None /\ has(new_bot_id)
      THEN mutual_follow(new_bot_id, others(new_bot_id), st) \o others(new_bot_id)
      ELSE Flatten([i \in 1..Len(ws) |-> mutual_follow(ws[i], others(ws[i]), st)])

\* ------------------------------------------------------------------ tasks
\* The payloads the callers of add_task build, by the keys a handler reads.
NoPayload ==
  [ tweet_url |-> FALSE, quote_text |-> FALSE, keyword |-> FALSE,
    username |-> FALSE, new_bot_id |-> None ]

Payloads(kind) ==
  CASE kind \in {"like", "comment", "retweet"} ->
         { [NoPayload EXCEPT !.tweet_url = u] : u \in BOOLEAN }
    [] kind = "quote" ->
         { [NoPayload EXCEPT !.tweet_url = u, !.quote_text = TRUE, !.keyword = TRUE]
             : u \in BOOLEAN }
    [] kind = "follow" ->
         { [NoPayload EXCEPT !.username = u] : u \in BOOLEAN }
    [] kind = "sync_follows" ->
         { [NoPayload EXCEPT !.new_bot_id = b] : b \in BotIds \cup {None} }
    [] OTHER -> { NoPayload }

Priorities == {1, 2}

\* delay_minutes of the callers that submit a task for later: less and more
\* than the five minutes of a retry.
Delays == {2, 6}

\* The keys the handler of the kind requires before it acts.
PayloadComplete(kind, payload) ==
  CASE kind \in {"like", "comment", "retweet"} -> payload.tweet_url
    [] kind = "quote" -> payload.tweet_url /\ payload.quote_text /\ payload.keyword
    [] kind = "follow" -> payload.username
    [] OTHER -> TRUE

\* TaskScheduler.task_handlers
task_handlers == {"like", "comment", "retweet", "quote", "follow", "sync_follows"}

\* The task_id add_task formats: the kind, the second of datetime.now() and
\* the draw n of random.randint. The second is not held: submissions of
\* different seconds are given different draws.
TaskId(kind, n) == << kind, n >>

\* A Task for which Database.add_task has stored no record yet.
NoRecord == [ id |-> None, status |-> "none" ]

\* Task(...) as add_task builds it. created_at orders the tasks as their
\* creation numbers do, and is not held.
NewTask(kind, payload, priority, delay_minutes, n) ==
  [ id |-> TaskId(kind, n),
    task_type |-> kind, payload |-> payload, status |-> "pending",
    scheduled_for |-> delay_minutes, completed_at |-> None,
    retry_count |-> 0, priority |-> priority, record |-> NoRecord ]

\* Database.add_task for the Task t: the record is numbered by its place in
\* the stored list, whatever id the scheduler passed, and is held with the
\* Task it was made for.
db_add_task(all, t) ==
  [all EXCEPT ![t].record =
     [ id |-> Cardinality({ u \in DOMAIN all : all[u].record # NoRecord }) + 1,
       status |-> "pending" ]]

\* Database.update_task_status: the record whose number is task_id, if there
\* is one, gets the status.
update_task_status(all, task_id, status) ==
  [u \in DOMAIN all |->
     IF all[u].record # NoRecord /\ all[u].record.id = task_id
     THEN [all[u] EXCEPT !.record.status = status]
     ELSE all[u]]

\* "self.db.update_task_status(int(task.id.split("_")[-1]), task.status.value)"
\* in _execute_task: the number passed is the draw at the end of the task_id.
SaveStatus(all, t) == update_task_status(all, all[t].id[2], all[t].status)

InQueue(q, x) == \E i \in 1..Len(q) : q[i] = x

\* ------------------------------------------------------------------- loop
IdleLoop(pc) ==
  [ pc |-> pc, task |-> None, targets |-> <<>>, succ |-> 0, n |-> 0,
    wake |-> 0, idx |-> 0, inflight |-> {} ]

\* What is noted of a run: the last thing the dispatch loop did with a task
\* (event, task, and for a dispatch the retry_count it started from, the
\* number of workers targeted and of successes, the record_*_action calls made
\* and the minutes between this record and the previous one of the kind), and
\* per task the number of times _execute_task ran for it and whether each of
\* them was a fan-out that returned without a success; of the last add_worker
\* that found other workers, the bot it added, the workers that were
\* registered and those that were eligible before it, and the follow_user
\* calls its sync made.
HistInit ==
  [ event |-> "none", task |-> None, retry_before |-> 0, k |-> 0, n |-> 0,
    records |-> 0, gap |-> None, dispatches |-> <<>>, only_zero |-> <<>>,
    joined |-> [ bot |-> None, pool |-> 0, existing |-> 0, calls |-> 0 ] ]

Init ==
  /\ rate_limiter = RateLimiterInit
  /\ tasks = <<>>
  /\ task_queue = <<>>
  /\ putters = <<>>
  /\ woken = {}
  /\ active_tasks = {}
  /\ is_running = FALSE
  /\ workers = <<>>
  /\ wstate = [b \in BotIds |-> NoWorker]
  /\ loop = [l \in LoopIds |-> IdleLoop("idle")]
  /\ hist = HistInit

\* ---------------------------------------------------------------- actions
\* An elapsed time a minute later; it stops at cap.
Older(x, cap) == IF x = None \/ x >= cap THEN x ELSE x + 1

\* The minutes left until an instant, a minute later; it stops at floor.
Nearer(x, floor) == IF x = None \/ x <= floor THEN x ELSE x - 1

\* datetime.now() moves on by a minute. The minutes since completed_at stop
\* growing at retention, and the minutes left until scheduled_for, negative
\* for an overdue task, stop falling at -overdue.
Elapse(retention, overdue) ==
  /\ rate_limiter' =
       [ like_last_action    |-> Older(rate_limiter.like_last_action, LIKE_BREAK_MINUTES),
         comment_last_action |-> Older(rate_limiter.comment_last_action, COMMENT_MIN_INTERVAL),
         retweet_last_action |-> Older(rate_limiter.retweet_last_action, LIKE_BREAK_MINUTES),
         quote_last_action   |-> Older(rate_limiter.quote_last_action, QUOTE_CYCLE_MIN),
         like_cycle_start    |-> Older(rate_limiter.like_cycle_start, LIKE_BREAK_MINUTES + 1),
         retweet_cycle_start |-> Older(rate_limiter.retweet_cycle_start, LIKE_BREAK_MINUTES + 1),
         quote_cycle_start   |-> Older(rate_limiter.quote_cycle_start, QUOTE_CYCLE_MAX + 1) ]
  /\ tasks' = [t \in DOMAIN tasks |->
                [tasks[t] EXCEPT !.scheduled_for = Nearer(@, 0 - overdue),
                                 !.completed_at = Older(@, retention)]]
  /\ wstate' = [b \in BotIds |->
                 [wstate[b] EXCEPT !.rate_limited_until = Nearer(@, 0)]]
  /\ loop' = [l \in LoopIds |-> [loop[l] EXCEPT !.wake = Nearer(@, 0)]]
  /\ UNCHANGED << task_queue, putters, woken, active_tasks, is_running, workers,
                  hist >>

\* One minute passes where nothing reads completed_at, nor how long a task
\* is overdue: the minutes since completed_at stay 0, and scheduled_for stops
\* at now.
Tick == Elapse(0, 0)

\* TaskScheduler.start: sets is_running and creates the _process_tasks
\* coroutine.
Start(l) ==
  /\ loop[l].pc \in {"idle", "done"}
  /\ is_running' = TRUE
  /\ loop' = [loop EXCEPT ![l] = IdleLoop("top")]
  /\ UNCHANGED << rate_limiter, tasks, task_queue, putters, woken,
                  active_tasks, workers, wstate, hist >>

\* TaskScheduler.stop
Stop ==
  /\ is_running
  /\ is_running' = FALSE
  /\ UNCHANGED << rate_limiter, tasks, task_queue, putters, woken,
                  active_tasks, workers, wstate, loop, hist >>

\* WorkerManager.add_worker with a successful initialize(): the worker is
\* stored under its bot id (a new key goes last in the dict).  The follows of
\* its _sync_mutual_following, if it makes any, find no user to follow.
AddWorker(b) ==
  /\ workers' = IF InQueue(workers, b) THEN workers ELSE Append(workers, b)
  /\ wstate' = [wstate EXCEPT ![b] = WorkerInit]
  /\ UNCHANGED << rate_limiter, tasks, task_queue, putters, woken,
                  active_tasks, is_running, loop, hist >>

\* What the account client can answer to the follow of a sync.
FollowOutcomes == {"ok", "rate_limit", "captcha", "error"}

\* WorkerManager.add_worker of a bot id that is not registered, with other
\* workers registered: the worker is stored, then _sync_mutual_following(b)
\* runs, the follow of every worker it calls ending in outcome.
AddWorkerSync(b, outcome) ==
  LET ws == Append(workers, b)
      st == [wstate EXCEPT ![b] = WorkerInit]
      calls == SyncCalls(ws, b, st)
  IN
  /\ ~InQueue(workers, b)
  /\ workers # <<>>
  /\ outcome \in FollowOutcomes
  /\ workers' = ws
  /\ wstate' = [x \in BotIds |->
                 IF InQueue(calls, x) THEN WorkerAfter(st[x], "follow", outcome)
                 ELSE st[x]]
  /\ hist' = [hist EXCEPT !.joined =
                [ bot |-> b,
                  pool |-> Len(workers),
                  existing |-> Len(get_active_workers(workers, wstate)),
                  calls |-> Len(calls) ]]
  /\ UNCHANGED << rate_limiter, tasks, task_queue, putters, woken,
                  active_tasks, is_running, loop >>

\* WorkerManager.remove_worker / disable_worker / delete_worker: the key is
\* deleted; a fan-out that listed the worker before still holds the object.
RemoveWorker(b) ==
  /\ InQueue(workers, b)
  /\ workers' = SelectSeq(workers, LAMBDA o : o # b)
  /\ UNCHANGED << rate_limiter, tasks, task_queue, putters, woken,
                  active_tasks, is_running, wstate, loop, hist >>

\* TwitterWorker.reinitialize of a registered worker, the account client
\* accepting the cookies (the /reinit command).
Reinitialize(b) ==
  /\ InQueue(workers, b)
  /\ wstate' = [wstate EXCEPT ![b].is_logged_in = TRUE,
                              ![b].rate_limited_until = None,
                              ![b].captcha_required = FALSE]
  /\ UNCHANGED << rate_limiter, tasks, task_queue, putters, woken,
                  active_tasks, is_running, workers, loop, hist >>

\* asyncio.Queue.get_nowait wakes the first suspended putter.
WakePutter ==
  IF putters # <<>>
  THEN /\ woken' = woken \cup {Head(putters)}
       /\ putters' = Tail(putters)
  ELSE UNCHANGED << putters, woken >>

\* TaskScheduler.add_task: the Task is built, then put on the queue; with the
\* queue full the coroutine is suspended in put and the rest of add_task runs
\* when put returns.
\* "self.active_tasks[task_id] = task" for the Task t: the dict holds one
\* Task under an id.
Registered(all, t) ==
  { u \in active_tasks : all[u].id # all[t].id } \cup {t}

\* add_task with the draw n of random.randint.
add_task(kind, payload, priority, delay_minutes, limit, n) ==
  /\ Len(tasks) < limit
  /\ LET t == Len(tasks) + 1 IN
     /\ IF Len(task_queue) < TASK_QUEUE_SIZE
        THEN /\ tasks' = db_add_task(
                           Append(tasks, NewTask(kind, payload, priority,
                                                 delay_minutes, n)), t)
             /\ task_queue' = Append(task_queue, t)
             /\ active_tasks' = Registered(tasks', t)
             /\ UNCHANGED putters
        ELSE /\ tasks' = Append(tasks, NewTask(kind, payload, priority,
                                               delay_minutes, n))
             /\ putters' = Append(putters, t)
             /\ UNCHANGED << task_queue, active_tasks >>
  /\ hist' = [hist EXCEPT !.dispatches = Append(@, 0),
                          !.only_zero = Append(@, TRUE)]
  /\ UNCHANGED << rate_limiter, woken, is_running, workers, wstate, loop >>

\* add_task with a draw that no earlier submission had.
AddTask(kind, payload, priority, delay_minutes, limit) ==
  add_task(kind, payload, priority, delay_minutes, limit, FirstDraw + Len(tasks))

\* add_task resumed in put: the queue is full again and the coroutine goes
\* back to the end of the putters, or the task is queued and registered.
AddTaskResume(t) ==
  /\ t \in woken
  /\ t > 0
  /\ woken' = woken \ {t}
  /\ IF Len(task_queue) < TASK_QUEUE_SIZE
     THEN /\ task_queue' = Append(task_queue, t)
          /\ active_tasks' = Registered(tasks, t)
          /\ tasks' = db_add_task(tasks, t)
          /\ UNCHANGED putters
     ELSE /\ putters' = Append(putters, t)
          /\ UNCHANGED << task_queue, active_tasks, tasks >>
  /\ UNCHANGED << rate_limiter, is_running, workers, wstate, loop, hist >>

\* _process_tasks, "while self.is_running" found false: the coroutine ends.
LoopExit(l) ==
  /\ loop[l].pc = "top"
  /\ ~is_running
  /\ loop' = [loop EXCEPT ![l] = IdleLoop("done")]
  /\ UNCHANGED << rate_limiter, tasks, task_queue, putters, woken,
                  active_tasks, is_running, workers, wstate, hist >>

\* _process_tasks enters wait_for(task_queue.get()) on an empty queue.
LoopWait(l) ==
  /\ loop[l].pc = "top"
  /\ is_running
  /\ task_queue = <<>>
  /\ loop' = [loop EXCEPT ![l].pc = "get"]
  /\ UNCHANGED << rate_limiter, tasks, task_queue, putters, woken,
                  active_tasks, is_running, workers, wstate, hist >>

\* wait_for(task_queue.get(), timeout=1.0) times out: continue.
GetTimeout(l) ==
  /\ loop[l].pc = "get"
  /\ task_queue = <<>>
  /\ loop' = [loop EXCEPT ![l].pc = "top"]
  /\ UNCHANGED << rate_limiter, tasks, task_queue, putters, woken,
                  active_tasks, is_running, workers, wstate, hist >>

\* task_queue.get() returns the head of the queue.
TakeHead(l) ==
  /\ task_queue # <<>>
  /\ task_queue' = Tail(task_queue)
  /\ WakePutter
  /\ loop' = [loop EXCEPT ![l].pc = "check", ![l].task = Head(task_queue)]
  /\ UNCHANGED << rate_limiter, tasks, active_tasks, is_running, workers,
                  wstate, hist >>

\* _process_tasks gets a task at once.
GetNow(l) ==
  /\ loop[l].pc = "top"
  /\ is_running
  /\ TakeHead(l)

\* _process_tasks gets a task that arrived while it waited.
GetWaited(l) ==
  /\ loop[l].pc = "get"
  /\ TakeHead(l)

\* _process_tasks, "if datetime.now() < task.scheduled_for": the task is put
\* back (the loop is suspended in put when the queue is full), then sleep(1).
NotDue(l) ==
  /\ loop[l].pc = "check"
  /\ 0 < tasks[loop[l].task].scheduled_for
  /\ IF Len(task_queue) < TASK_QUEUE_SIZE
     THEN /\ task_queue' = Append(task_queue, loop[l].task)
          /\ loop' = [loop EXCEPT ![l] = IdleLoop("top")]
          /\ UNCHANGED putters
     ELSE /\ putters' = Append(putters, LoopPutter(l))
          /\ loop' = [loop EXCEPT ![l].pc = "putback"]
          /\ UNCHANGED task_queue
  /\ UNCHANGED << rate_limiter, tasks, woken, active_tasks, is_running,
                  workers, wstate, hist >>

\* _process_tasks, "if not active_workers": warning, sleep(5), continue.
NoWorkers(l) ==
  /\ loop[l].pc = "check"
  /\ ~(0 < tasks[loop[l].task].scheduled_for)
  /\ get_active_workers(workers, wstate) = <<>>
  /\ loop' = [loop EXCEPT ![l] = IdleLoop("top")]
  /\ hist' = [hist EXCEPT !.event = "no_workers", !.task = loop[l].task]
  /\ UNCHANGED << rate_limiter, tasks, task_queue, putters, woken,
                  active_tasks, is_running, workers, wstate >>

\* A loop that does not look at scheduled_for.
ExecutesEarly(l) ==
  /\ loop[l].pc = "check"
  /\ get_active_workers(workers, wstate) # <<>>

\* _process_tasks reaches "await self._execute_task(task)".
Executes(l) ==
  /\ loop[l].pc = "check"
  /\ ~(0 < tasks[loop[l].task].scheduled_for)
  /\ get_active_workers(workers, wstate) # <<>>

\* A retry test that lets a task with max_retries failures try again.
RetryAllowedInclusive(retry_count) == retry_count <= max_retries

\* _execute_task, "if task.retry_count < task.max_retries" after the increment
RetryAllowed(retry_count) == retry_count < max_retries

\* A sync handler that returns as the other handlers do.
HandlerSuccessOfSyncCounted(kind, success_count) == success_count > 0

\* A handler that wants more than one success.
HandlerSuccessMoreThanOne(kind, success_count) ==
  IF kind = "sync_follows" THEN TRUE ELSE success_count > 1

\* The handlers' "return success_count > 0"; _handle_sync_follows_task
\* returns True.
HandlerSuccess(kind, success_count) ==
  IF kind = "sync_follows" THEN TRUE ELSE success_count > 0

\* A handler that records inside the loop over the workers.
RecordCallsPerWorker(kind, n) == IF kind \in RateLimited THEN n ELSE 0

\* The record_*_action calls a handler makes for a fan-out over n workers
\* that returned: one, after the fan-out.
RecordCalls(kind, n) == IF kind \in RateLimited THEN 1 ELSE 0

\* An _execute_task that puts the task back after every failure.
HandlerReturnedRequeuesFailed(l, t, success) ==
  IF success
  THEN /\ tasks' = [tasks EXCEPT ![t].status = "completed",
                                 ![t].completed_at = 0]
       /\ loop' = [loop EXCEPT ![l] = IdleLoop("top")]
       /\ UNCHANGED << task_queue, putters >>
  ELSE LET rc == tasks[t].retry_count + 1 IN
       /\ tasks' = [tasks EXCEPT ![t].status = IF RetryAllowed(rc) THEN "pending"
                                               ELSE "failed",
                                 ![t].retry_count = rc,
                                 ![t].scheduled_for = RetryDelayMinutes]
       /\ IF Len(task_queue) < TASK_QUEUE_SIZE
          THEN /\ task_queue' = Append(task_queue, t)
               /\ loop' = [loop EXCEPT ![l] = IdleLoop("top")]
               /\ UNCHANGED putters
          ELSE /\ putters' = Append(putters, LoopPutter(l))
               /\ loop' = [loop EXCEPT
                             ![l] = [IdleLoop("requeue") EXCEPT !.task = t]]
               /\ UNCHANGED task_queue

\* An _execute_task that puts a failed task back without setting it pending.
HandlerReturnedKeepsInProgress(l, t, success) ==
  IF success
  THEN /\ tasks' = [tasks EXCEPT ![t].status = "completed",
                                 ![t].completed_at = 0]
       /\ loop' = [loop EXCEPT ![l] = IdleLoop("top")]
       /\ UNCHANGED << task_queue, putters >>
  ELSE LET rc == tasks[t].retry_count + 1 IN
       IF RetryAllowed(rc)
       THEN /\ tasks' = [tasks EXCEPT ![t].status = "in_progress",
                                      ![t].retry_count = rc,
                                      ![t].scheduled_for = RetryDelayMinutes]
            /\ IF Len(task_queue) < TASK_QUEUE_SIZE
               THEN /\ task_queue' = Append(task_queue, t)
                    /\ loop' = [loop EXCEPT ![l] = IdleLoop("top")]
                    /\ UNCHANGED putters
               ELSE /\ putters' = Append(putters, LoopPutter(l))
                    /\ loop' = [loop EXCEPT
                                  ![l] = [IdleLoop("requeue") EXCEPT !.task = t]]
                    /\ UNCHANGED task_queue
       ELSE /\ tasks' = [tasks EXCEPT ![t].status = "failed",
                                      ![t].retry_count = rc]
            /\ loop' = [loop EXCEPT ![l] = IdleLoop("top")]
            /\ UNCHANGED << task_queue, putters >>

\* An _execute_task that delays a retry from the task's scheduled_for.
HandlerReturnedFromScheduled(l, t, success) ==
  IF success
  THEN /\ tasks' = [tasks EXCEPT ![t].status = "completed",
                                 ![t].completed_at = 0]
       /\ loop' = [loop EXCEPT ![l] = IdleLoop("top")]
       /\ UNCHANGED << task_queue, putters >>
  ELSE LET rc == tasks[t].retry_count + 1 IN
       IF RetryAllowed(rc)
       THEN /\ tasks' = [tasks EXCEPT ![t].status = "pending",
                                      ![t].retry_count = rc,
                                      ![t].scheduled_for = @ + RetryDelayMinutes]
            /\ IF Len(task_queue) < TASK_QUEUE_SIZE
               THEN /\ task_queue' = Append(task_queue, t)
                    /\ loop' = [loop EXCEPT ![l] = IdleLoop("top")]
                    /\ UNCHANGED putters
               ELSE /\ putters' = Append(putters, LoopPutter(l))
                    /\ loop' = [loop EXCEPT
                                  ![l] = [IdleLoop("requeue") EXCEPT !.task = t]]
                    /\ UNCHANGED task_queue
       ELSE /\ tasks' = [tasks EXCEPT ![t].status = "failed",
                                      ![t].retry_count = rc]
            /\ loop' = [loop EXCEPT ![l] = IdleLoop("top")]
            /\ UNCHANGED << task_queue, putters >>

\* _execute_task after "success = await handler(task)". Where the handler
\* returned without suspending, the task is still pending here and the save
\* of IN_PROGRESS that _execute_task begins with is made first. The save of
\* the new status follows the put of a retry.
HandlerReturned(l, t, success) ==
  LET saved == IF tasks[t].status = "in_progress" THEN tasks
               ELSE update_task_status(tasks, tasks[t].id[2], "in_progress")
  IN
  IF success
  THEN /\ tasks' = SaveStatus([saved EXCEPT ![t].status = "completed",
                                            ![t].completed_at = 0], t)
       /\ loop' = [loop EXCEPT ![l] = IdleLoop("top")]
       /\ UNCHANGED << task_queue, putters >>
  ELSE LET rc == tasks[t].retry_count + 1
           retried == [saved EXCEPT ![t].status = "pending",
                                    ![t].retry_count = rc,
                                    ![t].scheduled_for = RetryDelayMinutes]
       IN
       IF RetryAllowed(rc)
       THEN IF Len(task_queue) < TASK_QUEUE_SIZE
            THEN /\ tasks' = SaveStatus(retried, t)
                 /\ task_queue' = Append(task_queue, t)
                 /\ loop' = [loop EXCEPT ![l] = IdleLoop("top")]
                 /\ UNCHANGED putters
            ELSE /\ tasks' = retried
                 /\ putters' = Append(putters, LoopPutter(l))
                 /\ loop' = [loop EXCEPT
                               ![l] = [IdleLoop("requeue") EXCEPT !.task = t]]
                 /\ UNCHANGED task_queue
       ELSE /\ tasks' = SaveStatus([saved EXCEPT ![t].status = "failed",
                                                 ![t].retry_count = rc], t)
            /\ loop' = [loop EXCEPT ![l] = IdleLoop("top")]
            /\ UNCHANGED << task_queue, putters >>

\* What _execute_task notes of a dispatch before the handler runs.
Dispatched(t, how) ==
  [hist EXCEPT !.event = how,
               !.task = t,
               !.retry_before = tasks[t].retry_count,
               !.k = 0,
               !.n = 0,
               !.records = 0,
               !.gap = None,
               !.dispatches[t] = @ + 1,
               !.only_zero[t] = @ /\ how = "fanout"]

\* _execute_task for a kind that task_handlers does not list: FAILED.
ExecNoHandler(l) ==
  LET t == loop[l].task IN
  /\ Executes(l)
  /\ tasks[t].task_type \notin task_handlers
  /\ tasks' = [update_task_status(tasks, tasks[t].id[2], "in_progress")
                 EXCEPT ![t].status = "failed"]
  /\ loop' = [loop EXCEPT ![l] = IdleLoop("top")]
  /\ hist' = Dispatched(t, "no_handler")
  /\ UNCHANGED << rate_limiter, task_queue, putters, woken, active_tasks,
                  is_running, workers, wstate >>

\* _execute_task, the handler returns False because the RateLimiter does not
\* permit the kind.
ExecDenied(l) ==
  LET t == loop[l].task
      chk == HandlerCheck(tasks[t].task_type, rate_limiter)
  IN
  /\ Executes(l)
  /\ tasks[t].task_type \in task_handlers
  /\ ~chk.result
  /\ rate_limiter' = chk.rl
  /\ HandlerReturned(l, t, FALSE)
  /\ hist' = Dispatched(t, "denied")
  /\ UNCHANGED << woken, active_tasks, is_running, workers, wstate >>

\* _execute_task, the handler passes the RateLimiter and returns False
\* because the payload lacks a key it needs.
ExecNoPayload(l) ==
  LET t == loop[l].task
      chk == HandlerCheck(tasks[t].task_type, rate_limiter)
  IN
  /\ Executes(l)
  /\ tasks[t].task_type \in task_handlers
  /\ chk.result
  /\ ~PayloadComplete(tasks[t].task_type, tasks[t].payload)
  /\ rate_limiter' = chk.rl
  /\ HandlerReturned(l, t, FALSE)
  /\ hist' = Dispatched(t, "no_payload")
  /\ UNCHANGED << woken, active_tasks, is_running, workers, wstate >>

\* The workers a handler's fan-out calls, in order.
FanOutTargets(kind, payload) ==
  IF kind = "sync_follows"
  THEN SyncCalls(workers, payload.new_bot_id, wstate)
  ELSE get_active_workers(workers, wstate)

\* _execute_task, the handler passes the RateLimiter and starts its fan-out.
ExecFanOut(l) ==
  LET t == loop[l].task
      kind == tasks[t].task_type
      chk == HandlerCheck(kind, rate_limiter)
      tg == FanOutTargets(kind, tasks[t].payload)
  IN
  /\ Executes(l)
  /\ kind \in task_handlers
  /\ chk.result
  /\ PayloadComplete(kind, tasks[t].payload)
  /\ rate_limiter' = chk.rl
  /\ tasks' = SaveStatus([tasks EXCEPT ![t].status = "in_progress"], t)
  /\ loop' = [loop EXCEPT ![l] =
                [ pc |-> "fanout", task |-> t, targets |-> tg, succ |-> 0,
                  n |-> Len(tg), wake |-> 0, idx |-> 0, inflight |-> {} ]]
  /\ hist' = [Dispatched(t, "fanout") EXCEPT !.n = Len(tg)]
  /\ UNCHANGED << task_queue, putters, woken, active_tasks, is_running,
                  workers, wstate >>

\* A fan-out that starts its workers' actions without awaiting them.
StartsWithoutAwait(lp) == TRUE

\* "success = await worker.like_tweet(tweet_url)" in the fan-out's for loop:
\* the next worker is called when the call of the one before has returned.
AwaitsPrevious(lp) == lp.inflight = {}

\* One worker of the fan-out acts, then the fan-out sleeps.
FanOutStep(l, outcome) ==
  LET t == loop[l].task
      kind == tasks[t].task_type
      b == Head(loop[l].targets)
  IN
  /\ loop[l].pc = "fanout"
  /\ loop[l].targets # <<>>
  /\ loop[l].wake = 0
  /\ AwaitsPrevious(loop[l])
  /\ outcome \in ActionOutcomes(kind)
  /\ wstate' = [wstate EXCEPT ![b] = WorkerAfter(wstate[b], kind, outcome)]
  /\ loop' = [loop EXCEPT
                ![l].targets = Tail(@),
                ![l].succ = @ + (IF WorkerResult(wstate[b], outcome) THEN 1 ELSE 0),
                ![l].wake = FanOutDelay(kind, loop[l].idx),
                ![l].idx = @ + 1]
  /\ UNCHANGED << rate_limiter, tasks, task_queue, putters, woken,
                  active_tasks, is_running, workers, hist >>

\* The fan-out calls its next worker, which passes _can_perform_action and
\* awaits the account client: the action is in flight.
WorkerCall(l) ==
  /\ loop[l].pc = "fanout"
  /\ loop[l].targets # <<>>
  /\ loop[l].wake = 0
  /\ AwaitsPrevious(loop[l])
  /\ can_perform_action(wstate[Head(loop[l].targets)])
  /\ loop' = [loop EXCEPT ![l].targets = Tail(@),
                          ![l].inflight = @ \cup {Head(loop[l].targets)},
                          ![l].idx = @ + 1]
  /\ UNCHANGED << rate_limiter, tasks, task_queue, putters, woken,
                  active_tasks, is_running, workers, wstate, hist >>

\* The fan-out calls its next worker, which does not pass
\* _can_perform_action: "return False" at once, and the fan-out sleeps.
WorkerRefuses(l) ==
  /\ loop[l].pc = "fanout"
  /\ loop[l].targets # <<>>
  /\ loop[l].wake = 0
  /\ AwaitsPrevious(loop[l])
  /\ ~can_perform_action(wstate[Head(loop[l].targets)])
  /\ loop' = [loop EXCEPT
                ![l].targets = Tail(@),
                ![l].wake = FanOutDelay(tasks[loop[l].task].task_type, loop[l].idx),
                ![l].idx = @ + 1]
  /\ hist' = [hist EXCEPT !.event = "refused"]
  /\ UNCHANGED << rate_limiter, tasks, task_queue, putters, woken,
                  active_tasks, is_running, workers, wstate >>

\* A fan-out that gives up at the first worker that fails.
WorkerReturnAborts(l, b, outcome) ==
  LET kind == tasks[loop[l].task].task_type IN
  /\ loop[l].pc = "fanout"
  /\ b \in loop[l].inflight
  /\ outcome \in ActionOutcomes(kind)
  /\ wstate' = [wstate EXCEPT ![b] = WorkerAfter(wstate[b], kind, outcome)]
  /\ loop' = [loop EXCEPT
                ![l].inflight = @ \ {b},
                ![l].targets = IF outcome = "ok" THEN @ ELSE <<>>,
                ![l].succ = @ + (IF WorkerResult(wstate[b], outcome) THEN 1 ELSE 0),
                ![l].wake = FanOutDelay(kind, loop[l].idx - 1)]
  /\ UNCHANGED << rate_limiter, tasks, task_queue, putters, woken,
                  active_tasks, is_running, workers, hist >>

\* The account client answers the action in flight of worker b, the worker
\* returns, and the fan-out sleeps.
WorkerReturn(l, b, outcome) ==
  LET kind == tasks[loop[l].task].task_type IN
  /\ loop[l].pc = "fanout"
  /\ b \in loop[l].inflight
  /\ outcome \in ActionOutcomes(kind)
  /\ wstate' = [wstate EXCEPT ![b] = WorkerAfter(wstate[b], kind, outcome)]
  /\ loop' = [loop EXCEPT
                ![l].inflight = @ \ {b},
                ![l].succ = @ + (IF WorkerResult(wstate[b], outcome) THEN 1 ELSE 0),
                ![l].wake = FanOutDelay(kind, loop[l].idx - 1)]
  /\ UNCHANGED << rate_limiter, tasks, task_queue, putters, woken,
                  active_tasks, is_running, workers, hist >>

\* The fan-out returned: the handler records the action and returns, and
\* _execute_task settles the task.
FanOutFinish(l) ==
  LET t == loop[l].task
      kind == tasks[t].task_type
      calls == RecordCalls(kind, loop[l].n)
  IN
  /\ loop[l].pc = "fanout"
  /\ loop[l].targets = <<>>
  /\ loop[l].wake = 0
  /\ loop[l].inflight = {}
  /\ rate_limiter' = IF calls > 0 THEN HandlerRecord(kind, rate_limiter)
                     ELSE rate_limiter
  /\ HandlerReturned(l, t, HandlerSuccess(kind, loop[l].succ))
  /\ hist' = [hist EXCEPT
                !.event = "returned",
                !.k = loop[l].succ,
                !.records = @ + calls,
                !.gap = IF calls > 0 THEN LastAction(kind, rate_limiter) ELSE None,
                !.only_zero[t] = @ /\ loop[l].succ = 0 /\ kind # "sync_follows"]
  /\ UNCHANGED << woken, active_tasks, is_running, workers, wstate >>

\* An exception inside _sync_mutual_following, between two of its follows:
\* its "except Exception" logs it, the follows not yet made are left out and
\* the handler goes on to its return.
SyncRaise(l) ==
  LET t == loop[l].task IN
  /\ loop[l].pc = "fanout"
  /\ tasks[t].task_type = "sync_follows"
  /\ loop[l].inflight = {}
  /\ loop' = [loop EXCEPT ![l].targets = <<>>, ![l].wake = 0]
  /\ hist' = [hist EXCEPT !.event = "sync_failed"]
  /\ UNCHANGED << rate_limiter, tasks, task_queue, putters, woken,
                  active_tasks, is_running, workers, wstate >>

\* An _execute_task that takes an exception for a failed dispatch.
FanOutRaiseRetries(l) ==
  LET t == loop[l].task IN
  /\ loop[l].pc = "fanout"
  /\ HandlerReturned(l, t, FALSE)
  /\ hist' = [hist EXCEPT !.event = "raised", !.only_zero[t] = FALSE]
  /\ UNCHANGED << rate_limiter, woken, active_tasks, is_running, workers,
                  wstate >>

\* An exception leaves the handler: _execute_task's "except Exception" sets
\* FAILED.
FanOutRaise(l) ==
  LET t == loop[l].task IN
  /\ loop[l].pc = "fanout"
  /\ tasks' = [tasks EXCEPT ![t].status = "failed"]
  /\ loop' = [loop EXCEPT ![l] = IdleLoop("top")]
  /\ hist' = [hist EXCEPT !.event = "raised", !.only_zero[t] = FALSE]
  /\ UNCHANGED << rate_limiter, task_queue, putters, woken, active_tasks,
                  is_running, workers, wstate >>

\* The loop resumed in put (of a task that was not due, or of a retry): the
\* queue is full again and it goes back to the putters, or the task is queued.
LoopPutResume(l) ==
  /\ LoopPutter(l) \in woken
  /\ woken' = woken \ {LoopPutter(l)}
  /\ IF Len(task_queue) < TASK_QUEUE_SIZE
     THEN /\ task_queue' = Append(task_queue, loop[l].task)
          /\ tasks' = IF loop[l].pc = "requeue" THEN SaveStatus(tasks, loop[l].task)
                      ELSE tasks
          /\ loop' = [loop EXCEPT ![l] = IdleLoop("top")]
          /\ UNCHANGED putters
     ELSE /\ putters' = Append(putters, LoopPutter(l))
          /\ UNCHANGED << task_queue, loop, tasks >>
  /\ UNCHANGED << rate_limiter, active_tasks, is_running, workers, wstate,
                  hist >>

\* What the dispatch loop does with a task it got.
Dispatch(l) ==
  \/ NotDue(l)
  \/ ExecFanOut(l)
  \/ FanOutFinish(l)

\* How the dispatch loop gets a task.
Fetch(l) ==
  \/ LoopWait(l)
  \/ GetTimeout(l)
  \/ GetNow(l)
  \/ GetWaited(l)

\* The kinds submitted in a run: the callers of one run submit one kind.
SubmittedKinds == IF tasks = <<>> THEN TaskType ELSE {tasks[1].task_type}

\* The scheduler with a pool of up to two workers whose actions succeed, fail
\* or meet a captcha, and callers that submit tasks of one kind, of any
\* payload, due at once.
Next ==
  \/ Tick
  \/ \E l \in FirstLoop : Start(l)
  \/ \E b \in BotIds : AddWorker(b)
  \/ \E kind \in SubmittedKinds : \E payload \in Payloads(kind) :
       AddTask(kind, payload, 1, 0, MaxTasks)
  \/ \E l \in FirstLoop : Fetch(l)
  \/ \E l \in FirstLoop : Dispatch(l)
  \/ \E l \in FirstLoop : NoWorkers(l)
  \/ \E l \in FirstLoop : ExecDenied(l)
  \/ \E l \in FirstLoop : ExecNoHandler(l)
  \/ \E l \in FirstLoop : ExecNoPayload(l)
  \/ \E l \in FirstLoop : FanOutRaise(l)
  \/ \E l \in FirstLoop : \E outcome \in {"ok", "captcha", "error"} :
       FanOutStep(l, outcome)

Spec == Init /\ [][Next]_vars

\* The scheduler with one worker and callers that submit more retweet tasks
\* than the queue holds, of either priority.
NextQueue ==
  \/ Tick
  \/ \E l \in FirstLoop : Start(l)
  \/ AddWorker(1)
  \/ \E priority \in Priorities :
       AddTask("retweet", [NoPayload EXCEPT !.tweet_url = TRUE], priority, 0,
               QueueTasks)
  \/ \E t \in DOMAIN tasks : AddTaskResume(t)
  \/ \E l \in FirstLoop : Fetch(l)
  \/ \E l \in FirstLoop : Dispatch(l)
  \/ \E l \in FirstLoop : NoWorkers(l)
  \/ \E l \in FirstLoop : \E outcome \in {"ok", "error"} : FanOutStep(l, outcome)

SpecQueue == Init /\ [][NextQueue]_vars

\* The scheduler with one worker that the operator adds, removes and
\* reinitializes, whose actions are in flight between their call and their
\* return and end in any outcome, and callers that submit like and comment
\* tasks due at once.
NextWorker ==
  \/ Tick
  \/ \E l \in FirstLoop : Start(l)
  \/ AddWorker(1)
  \/ RemoveWorker(1)
  \/ Reinitialize(1)
  \/ \E kind \in {"like", "comment"} :
       AddTask(kind, [NoPayload EXCEPT !.tweet_url = TRUE], 1, 0, WorkerTasks)
  \/ \E l \in FirstLoop : Fetch(l)
  \/ \E l \in FirstLoop : Dispatch(l)
  \/ \E l \in FirstLoop : NoWorkers(l)
  \/ \E l \in FirstLoop : ExecDenied(l)
  \/ \E l \in FirstLoop : WorkerCall(l)
  \/ \E l \in FirstLoop :
       \E outcome \in {"ok", "rate_limit", "spam_226", "captcha",
                       "auth_rejected", "error"} :
         WorkerReturn(l, 1, outcome)

SpecWorker == Init /\ [][NextWorker]_vars

\* The scheduler within one minute, with a pool of two workers registered
\* once each, whose actions are in flight between their call and their
\* return and end in any outcome, and callers that submit like and retweet
\* tasks due at once.
NextFanOut ==
  \/ \E l \in FirstLoop : Start(l)
  \/ \E b \in BotIds : ~InQueue(workers, b) /\ AddWorker(b)
  \/ \E kind \in {"like", "retweet"} :
       AddTask(kind, [NoPayload EXCEPT !.tweet_url = TRUE], 1, 0, FanOutTasks)
  \/ \E l \in FirstLoop : Fetch(l)
  \/ \E l \in FirstLoop : Dispatch(l)
  \/ \E l \in FirstLoop : NoWorkers(l)
  \/ \E l \in FirstLoop : ExecDenied(l)
  \/ \E l \in FirstLoop : WorkerCall(l)
  \/ \E l \in FirstLoop : \E b \in BotIds :
       \E outcome \in {"ok", "rate_limit", "captcha", "auth_rejected", "error"} :
         WorkerReturn(l, b, outcome)

SpecFanOut == Init /\ [][NextFanOut]_vars

\* The scheduler with one worker whose actions succeed or fail, and callers
\* that submit like tasks for later.
NextDelay ==
  \/ Tick
  \/ \E l \in FirstLoop : Start(l)
  \/ AddWorker(1)
  \/ \E delay_minutes \in Delays :
       AddTask("like", [NoPayload EXCEPT !.tweet_url = TRUE], 1, delay_minutes,
               DelayTasks)
  \/ \E l \in FirstLoop : Fetch(l)
  \/ \E l \in FirstLoop : Dispatch(l)
  \/ \E l \in FirstLoop : NoWorkers(l)
  \/ \E l \in FirstLoop : ExecDenied(l)
  \/ \E l \in FirstLoop : \E outcome \in {"ok", "error"} : FanOutStep(l, outcome)

SpecDelay == Init /\ [][NextDelay]_vars

\* The scheduler within one minute, started and stopped any number of times,
\* with one worker whose actions succeed or fail, and callers that submit more
\* retweet tasks than the queue holds.
NextLoops ==
  \/ \E l \in LoopIds : Start(l)
  \/ Stop
  \/ \E l \in LoopIds : LoopExit(l)
  \/ AddWorker(1)
  \/ AddTask("retweet", [NoPayload EXCEPT !.tweet_url = TRUE], 1, 0, LoopTasks)
  \/ \E t \in DOMAIN tasks : AddTaskResume(t)
  \/ \E l \in LoopIds : Fetch(l)
  \/ \E l \in LoopIds : Dispatch(l)
  \/ \E l \in LoopIds : NoWorkers(l)
  \/ \E l \in LoopIds : LoopPutResume(l)
  \/ \E l \in LoopIds : \E outcome \in {"ok", "error"} : FanOutStep(l, outcome)

SpecLoops == Init /\ [][NextLoops]_vars

\* The scheduler within one minute, with a pool of two workers registered
\* once each, the second with its mutual-follow sync, whose actions are in
\* flight between their call and their return, and callers that submit follow
\* and sync tasks due at once.
NextSync ==
  \/ \E l \in FirstLoop : Start(l)
  \/ \E b \in BotIds : workers = <<>> /\ AddWorker(b)
  \/ \E b \in BotIds : \E outcome \in FollowOutcomes : AddWorkerSync(b, outcome)
  \/ \E b \in BotIds : Reinitialize(b)
  \/ AddTask("follow", [NoPayload EXCEPT !.username = TRUE], 1, 0, SyncTasks)
  \/ \E b \in BotIds \cup {None} :
       AddTask("sync_follows", [NoPayload EXCEPT !.new_bot_id = b], 2, 0, SyncTasks)
  \/ \E l \in FirstLoop : Fetch(l)
  \/ \E l \in FirstLoop : Dispatch(l)
  \/ \E l \in FirstLoop : NoWorkers(l)
  \/ \E l \in FirstLoop : WorkerCall(l)
  \/ \E l \in FirstLoop : WorkerRefuses(l)
  \/ \E l \in FirstLoop : SyncRaise(l)
  \/ \E l \in FirstLoop : \E b \in BotIds : \E outcome \in FollowOutcomes :
       WorkerReturn(l, b, outcome)

SpecSync == Init /\ [][NextSync]_vars

\* The payload the callers build for a task of the kind, all keys given.
FullPayload(kind) ==
  CASE kind \in {"like", "comment", "retweet"} -> [NoPayload EXCEPT !.tweet_url = TRUE]
    [] kind = "quote" ->
         [NoPayload EXCEPT !.tweet_url = TRUE, !.quote_text = TRUE, !.keyword = TRUE]
    [] kind = "follow" -> [NoPayload EXCEPT !.username = TRUE]
    [] OTHER -> NoPayload

\* The rate-limited kinds an operator submits, once each and in this order,
\* before the syncs of the follows.
Campaign == << "quote", "comment", "like" >>

\* The kind of the next submission.
NextKind ==
  IF Len(tasks) < Len(Campaign) THEN Campaign[Len(tasks) + 1] ELSE "sync_follows"

\* The scheduler started twice, with one worker registered once whose actions
\* succeed, and an operator who submits the campaign and then syncs, all due
\* at once: no kind is submitted twice, so no task is denied or retried and
\* the loops put nothing back.
NextBypass ==
  \/ Tick
  \/ \E l \in LoopIds : Start(l)
  \/ ~InQueue(workers, 1) /\ AddWorker(1)
  \/ AddTask(NextKind, FullPayload(NextKind),
             IF NextKind = "sync_follows" THEN 2 ELSE 1, 0, BypassTasks)
  \/ \E t \in DOMAIN tasks : AddTaskResume(t)
  \/ \E l \in LoopIds : Fetch(l)
  \/ \E l \in LoopIds : ExecFanOut(l)
  \/ \E l \in LoopIds : FanOutFinish(l)
  \/ \E l \in LoopIds : NoWorkers(l)
  \/ \E l \in LoopIds : FanOutStep(l, "ok")

SpecBypass == Init /\ [][NextBypass]_vars

\* ---------------------------------------------------------------- cleanup
\* "current_time - task.completed_at" for a task whose completed_at is None:
\* the pass of _cleanup_completed_tasks raises TypeError before it deletes.
CleanupRaises ==
  \E t \in active_tasks :
    tasks[t].status \in {"completed", "failed"} /\ tasks[t].completed_at = None

\* The tasks a pass of _cleanup_completed_tasks collects in tasks_to_remove.
tasks_to_remove ==
  { t \in active_tasks :
      /\ tasks[t].status \in {"completed", "failed"}
      /\ tasks[t].completed_at # None
      /\ tasks[t].completed_at > RetentionMinutes }

\* One pass of the while loop of _cleanup_completed_tasks, the coroutine
\* start() creates. Its sleeps (300 s after a pass, 60 s after one that
\* raised) are not held: a pass comes at any time.
CleanupPass ==
  /\ is_running
  /\ active_tasks' = IF CleanupRaises THEN active_tasks
                     ELSE active_tasks \ tasks_to_remove
  /\ hist' = [hist EXCEPT !.event = IF CleanupRaises THEN "cleanup_raised"
                                    ELSE "cleanup"]
  /\ UNCHANGED << rate_limiter, tasks, task_queue, putters, woken, is_running,
                  workers, wstate, loop >>

\* The scheduler with its cleanup coroutine over more than an hour: one
\* worker whose likes succeed or fail, and a caller that submits likes.
NextCleanup ==
  \/ Elapse(RetentionMinutes + 1, 0)
  \/ \E l \in FirstLoop : Start(l)
  \/ AddWorker(1)
  \/ AddTask("like", [NoPayload EXCEPT !.tweet_url = TRUE], 1, 0, CleanupTasks)
  \/ \E l \in FirstLoop : Fetch(l)
  \/ \E l \in FirstLoop : Dispatch(l)
  \/ \E l \in FirstLoop : NoWorkers(l)
  \/ \E l \in FirstLoop : ExecDenied(l)
  \/ \E l \in FirstLoop : \E outcome \in {"ok", "error"} : FanOutStep(l, outcome)
  \/ CleanupPass

SpecCleanup == Init /\ [][NextCleanup]_vars

\* -------------------------------------------------------------------- ids
\* The scheduler within one second: callers submit likes whose draws may
\* agree, and one worker carries them out.
NextIds ==
  \/ \E l \in FirstLoop : Start(l)
  \/ AddWorker(1)
  \/ \E n \in FirstDraw..LastDraw :
       add_task("like", [NoPayload EXCEPT !.tweet_url = TRUE], 1, 0, IdTasks, n)
  \/ \E t \in DOMAIN tasks : AddTaskResume(t)
  \/ \E l \in FirstLoop : Fetch(l)
  \/ \E l \in FirstLoop : Dispatch(l)
  \/ \E l \in FirstLoop : NoWorkers(l)
  \/ \E l \in FirstLoop : ExecDenied(l)
  \/ \E l \in FirstLoop : \E outcome \in {"ok", "error"} : FanOutStep(l, outcome)

SpecIds == Init /\ [][NextIds]_vars

\* ------------------------------------------------------------------ retry
\* The scheduler over some minutes, telling how long a task is overdue: one
\* worker whose likes succeed or fail, and a caller that submits likes due at
\* once.
NextRetry ==
  \/ Elapse(0, OverdueMinutes)
  \/ \E l \in FirstLoop : Start(l)
  \/ AddWorker(1)
  \/ AddTask("like", [NoPayload EXCEPT !.tweet_url = TRUE], 1, 0, RetryTasks)
  \/ \E l \in FirstLoop : Fetch(l)
  \/ \E l \in FirstLoop : Dispatch(l)
  \/ \E l \in FirstLoop : NoWorkers(l)
  \/ \E l \in FirstLoop : ExecDenied(l)
  \/ \E l \in FirstLoop : \E outcome \in {"ok", "error"} : FanOutStep(l, outcome)

SpecRetry == Init /\ [][NextRetry]_vars

\* ------------------------------------------------------------------ raise
\* The scheduler over some minutes with one worker whose likes succeed or
\* fail, handlers that may raise, and a caller that submits likes due at once.
NextRaise ==
  \/ Tick
  \/ \E l \in FirstLoop : Start(l)
  \/ AddWorker(1)
  \/ AddTask("like", [NoPayload EXCEPT !.tweet_url = TRUE], 1, 0, RaiseTasks)
  \/ \E l \in FirstLoop : Fetch(l)
  \/ \E l \in FirstLoop : Dispatch(l)
  \/ \E l \in FirstLoop : NoWorkers(l)
  \/ \E l \in FirstLoop : ExecDenied(l)
  \/ \E l \in FirstLoop : FanOutRaise(l)
  \/ \E l \in FirstLoop : \E outcome \in {"ok", "error"} : FanOutStep(l, outcome)

SpecRaise == Init /\ [][NextRaise]_vars

\* ----------------------------------------------------------------- claims

\* C1: two approved actions of one kind are at least the kind's minimum
\* interval apart (like_interval for Like and Retweet, comment_min for
\* Comment, quote_min for Quote): when a dispatch records a kind, the previous
\* record of that kind is at least that many minutes old.
C1_MinimumSpacing ==
  hist.event = "returned" /\ hist.gap # None =>
    LET kind == tasks[hist.task].task_type IN
    hist.gap >= (CASE kind = "comment" -> rate_limits.comment_min
                   [] kind = "quote" -> rate_limits.quote_min
                   [] OTHER -> rate_limits.like_interval)

\* C2: a dispatch the RateLimiter denies is a deferral: the task stays Pending
\* and its retry_count is what it was before the dispatch.
C2_DenialIsDeferral ==
  hist.event = "denied" =>
    /\ tasks[hist.task].status = "pending"
    /\ tasks[hist.task].retry_count = hist.retry_before

C4_KeptForLater ==
  hist.event = "no_workers" =>
    /\ tasks[hist.task].status = "pending"
    /\ tasks[hist.task].retry_count = 0
    /\ \/ InQueue(task_queue, hist.task)
       \/ \E l \in LoopIds : loop[l].task = hist.task

\* C5: when the loop picks a due task from the queue, no due task left in the
\* queue has a higher priority, or the same priority and an earlier creation.
C5_PriorityOrder ==
  [][\A l \in LoopIds :
       loop[l].task = None /\ loop'[l].task # None =>
         LET c == loop'[l].task IN
         \A i \in 1..Len(task_queue) :
           LET q == task_queue[i] IN
           q # c /\ tasks[c].scheduled_for <= 0 /\ tasks[q].scheduled_for <= 0 =>
             /\ tasks[q].priority <= tasks[c].priority
             /\ tasks[q].priority = tasks[c].priority => c < q]_vars

\* C6: add_task on a full queue returns at once: no submission is left
\* waiting for room, and every task is either queued or was taken by the loop.
C6_NoWaitingSubmission ==
  \A t \in DOMAIN tasks : ~InQueue(putters, t) /\ t \notin woken

\* C7: a task that never succeeds is dispatched max_retries + 1 times before
\* it is Failed.
C7_DispatchCount ==
  \A t \in DOMAIN tasks :
    tasks[t].status = "failed" /\ hist.only_zero[t] =>
      hist.dispatches[t] = max_retries + 1

\* C8: Like is denied while the like cycle is older than like_break and the
\* last like is younger than like_break; Retweet likewise on the retweet
\* cycle; Quote while the quote cycle is older than quote_max and the last
\* quote is younger than quote_min.
C8_BurstBreak ==
  /\ rate_limiter.like_cycle_start # None
       /\ rate_limiter.like_cycle_start > rate_limits.like_break
       /\ rate_limiter.like_last_action < rate_limits.like_break
     => ~can_perform_like(rate_limiter).result
  /\ rate_limiter.retweet_cycle_start # None
       /\ rate_limiter.retweet_cycle_start > rate_limits.like_break
       /\ rate_limiter.retweet_last_action < rate_limits.like_break
     => ~can_perform_retweet(rate_limiter).result
  /\ rate_limiter.quote_cycle_start # None
       /\ rate_limiter.quote_cycle_start > rate_limits.quote_max
       /\ rate_limiter.quote_last_action < rate_limits.quote_min
     => ~can_perform_quote(rate_limiter).result

\* C9: Like and Retweet share one record: less than like_interval after a
\* recorded retweet both are denied, and so after a recorded like.
C9_SharedRecord ==
  /\ rate_limiter.retweet_last_action # None
       /\ rate_limiter.retweet_last_action < rate_limits.like_interval
     => /\ ~can_perform_like(rate_limiter).result
        /\ ~can_perform_retweet(rate_limiter).result
  /\ rate_limiter.like_last_action # None
       /\ rate_limiter.like_last_action < rate_limits.like_interval
     => /\ ~can_perform_like(rate_limiter).result
        /\ ~can_perform_retweet(rate_limiter).result

\* C10 as written: every dispatch of a Like, Comment, Retweet or Quote task
\* that passed the RateLimiter and ended records its kind exactly once.
C10_RecordedOncePerAttempt ==
  hist.event \in {"no_payload", "returned", "raised"}
    /\ tasks[hist.task].task_type \in RateLimited
  => hist.records = 1

\* C10: a dispatch of a Like, Comment, Retweet or Quote task whose fan-out
\* returned records its kind exactly once, however many workers were targeted
\* and succeeded; one that passed the RateLimiter and made no fan-out, its
\* payload lacking a key, or whose fan-out raised, records nothing.
C10_RecordedOncePerFanOut ==
  hist.task # None /\ tasks[hist.task].task_type \in RateLimited =>
    /\ hist.event = "returned" => hist.records = 1
    /\ hist.event \in {"no_payload", "raised", "denied"} => hist.records = 0

\* C10, its case: two workers were targeted, none succeeded, and the kind is
\* recorded once: the record is as old as the fan-out's return.
C10_Witness ==
  /\ hist.event = "returned"
  /\ tasks[hist.task].task_type \in RateLimited
  /\ hist.n = 2
  /\ hist.k = 0
  /\ hist.records = 1
  /\ LastAction(tasks[hist.task].task_type, rate_limiter) # None

\* C11: _can_perform_action() of a worker is true exactly when is_logged_in
\* is true, captcha_required is false and rate_limited_until is unset or not
\* later than now.
C11_WorkerEligibility ==
  \A b \in BotIds :
    can_perform_action(wstate[b]) <=>
      /\ wstate[b].is_logged_in
      /\ ~wstate[b].captcha_required
      /\ wstate[b].rate_limited_until = None \/ wstate[b].rate_limited_until <= 0

\* C11, its case: the rate limit of a registered worker has run out,
\* rate_limited_until is still set, and the worker is among the active ones.
C11_Witness ==
  /\ wstate[1].rate_limited_until = 0
  /\ wstate[1].is_logged_in
  /\ ~wstate[1].captcha_required
  /\ get_active_workers(workers, wstate) = <<1>>

\* C12 as written: an action that ends in a rate-limit error, of whatever
\* kind, sets rate_limited_until to now + the configured cooldown.
C12_CooldownOnRateLimit ==
  [][\A l \in LoopIds : \A b \in BotIds :
       \A outcome \in {"rate_limit", "spam_226"} :
         WorkerReturn(l, b, outcome) =>
           wstate'[b].rate_limited_until = rate_limits.rate_limit_pause]_vars

\* C12: an action that ends in a rate-limit error sets rate_limited_until to
\* now + the configured cooldown, and a comment that ends in error 226 or 344
\* to now + 30 minutes; a registered worker is not among the active workers
\* before its rate_limited_until, and is among them again from that time on,
\* rate_limited_until still set, if it is logged in and no captcha is
\* required.
C12_PauseOnRateLimit ==
  [][\A b \in BotIds :
       /\ \A l \in LoopIds :
            /\ WorkerReturn(l, b, "rate_limit") =>
                 wstate'[b].rate_limited_until = rate_limits.rate_limit_pause
            /\ WorkerReturn(l, b, "spam_226") =>
                 wstate'[b].rate_limited_until = CommentSpamPauseMinutes
       /\ InQueue(workers, b) /\ wstate[b].rate_limited_until # None =>
            IF wstate[b].rate_limited_until > 0
            THEN ~InQueue(get_active_workers(workers, wstate), b)
            ELSE wstate[b].is_logged_in /\ ~wstate[b].captcha_required =>
                   InQueue(get_active_workers(workers, wstate), b)]_vars

\* C12, its case: a fan-out returned without a success, its worker was
\* rate-limited by it, the time has passed and the worker is active again
\* with rate_limited_until still set.
C12_Witness ==
  /\ hist.event = "returned"
  /\ hist.k = 0
  /\ wstate[1].rate_limited_until = 0
  /\ InQueue(get_active_workers(workers, wstate), 1)

\* C13: an action that ends in an authentication rejection leaves the worker
\* logged out and not among the active workers.
C13_AuthRejectionLogsOut ==
  [][\A l \in LoopIds : \A b \in BotIds :
       WorkerReturn(l, b, "auth_rejected") =>
         /\ ~wstate'[b].is_logged_in
         /\ ~InQueue(get_active_workers(workers', wstate'), b)]_vars

\* C14: a worker whose captcha_required is true is not among the active
\* workers, no action of it is started, and captcha_required stays true
\* until the operator adds the worker anew or reinitializes it.
C14_CaptchaHolds ==
  [][\A b \in BotIds :
       wstate[b].captcha_required =>
         /\ ~InQueue(get_active_workers(workers, wstate), b)
         /\ \A l \in LoopIds : b \in loop'[l].inflight => b \in loop[l].inflight
         /\ \/ wstate'[b].captcha_required
            \/ AddWorker(b)
            \/ Reinitialize(b)]_vars

\* C14, its case: a registered worker met a captcha, and a later dispatch
\* found no active worker.
C14_Witness ==
  /\ InQueue(workers, 1)
  /\ wstate[1].captcha_required
  /\ hist.event = "no_workers"
  /\ hist.dispatches[hist.task] >= 1

\* C19: a worker of a fan-out whose action fails leaves the workers after it
\* to be called, and the fan-out returns when as many workers were called as
\* it targeted.
C19_FanOutGoesOn ==
  [][\A l \in LoopIds :
       /\ \A b \in BotIds :
            \A outcome \in {"rate_limit", "captcha", "auth_rejected", "error"} :
              WorkerReturn(l, b, outcome) =>
                /\ loop'[l].pc = "fanout"
                /\ loop'[l].targets = loop[l].targets
       /\ loop[l].pc = "fanout" /\ FanOutFinish(l) =>
            /\ loop[l].idx = loop[l].n
            /\ loop[l].inflight = {}]_vars

\* C19, its case: a fan-out over two workers returned with one success, and
\* the first of the two is rate-limited: the second was called after the
\* first had failed.
C19_Witness ==
  /\ hist.event = "returned"
  /\ hist.n = 2
  /\ hist.k = 1
  /\ Len(workers) = 2
  /\ wstate[workers[1]].rate_limited_until # None
  /\ wstate[workers[1]].rate_limited_until > 0

\* C20: at no time are the actions of two workers of one fan-out in flight.
C20_OneActionInFlight ==
  \A l \in LoopIds : Cardinality(loop[l].inflight) <= 1

\* C20, its case: the action of the second worker of a fan-out is in flight,
\* the first having returned.
C20_Witness ==
  \E l \in LoopIds :
    /\ loop[l].pc = "fanout"
    /\ loop[l].n = 2
    /\ loop[l].idx = 2
    /\ Cardinality(loop[l].inflight) = 1

\* C15: the retry_count of a task never decreases and its scheduled_for
\* never moves to an earlier time (the minutes left until it shrink by the
\* minute that passes and by nothing else).
C15_TaskMonotonic ==
  [][\A t \in DOMAIN tasks :
       /\ tasks'[t].retry_count >= tasks[t].retry_count
       /\ IF Tick
          THEN tasks'[t].scheduled_for >= tasks[t].scheduled_for - 1
          ELSE tasks'[t].scheduled_for >= tasks[t].scheduled_for]_vars

\* C15, its case: a task submitted for later was dispatched and failed twice,
\* and waits for its second retry.
C15_Witness ==
  \E t \in DOMAIN tasks :
    /\ tasks[t].status = "pending"
    /\ tasks[t].retry_count = 2
    /\ tasks[t].scheduled_for > 0
    /\ hist.dispatches[t] = 2

\* C16: the retry_count of every task is at most max_retries.
C16_RetryBound ==
  \A t \in DOMAIN tasks : tasks[t].retry_count <= max_retries

\* C16, its case: a task failed for good, with max_retries failures counted.
C16_Witness ==
  \E t \in DOMAIN tasks :
    /\ tasks[t].status = "failed"
    /\ tasks[t].retry_count = max_retries

\* C17: a task is dispatched, and set InProgress, only when its scheduled_for
\* is not later than now, be it submitted for later or re-queued by a retry.
C17_NotBeforeScheduledFor ==
  [][\A t \in DOMAIN tasks :
       \/ hist'.dispatches[t] > hist.dispatches[t]
       \/ tasks'[t].status = "in_progress" /\ tasks[t].status # "in_progress"
       => tasks[t].scheduled_for <= 0]_vars

\* C17, its case: a task submitted for later was dispatched, failed and was
\* re-queued, and is InProgress again.
C17_Witness ==
  \E t \in DOMAIN tasks :
    /\ tasks[t].status = "in_progress"
    /\ tasks[t].retry_count = 1
    /\ hist.dispatches[t] = 2

\* C18: at most one _process_tasks coroutine is running at any time.
C18_SingleLoop ==
  Cardinality({l \in LoopIds : loop[l].pc \notin {"idle", "done"}}) <= 1

\* C21: a worker action invoked while _can_perform_action() is false (the
\* worker is logged out, requires a captcha, or is before its
\* rate_limited_until) returns failure, puts no call to the account client in
\* flight, and leaves is_logged_in, captcha_required, rate_limited_until and
\* last_activity of the worker as they were, whatever the kind of the action
\* and whatever the client would have answered.
C21_RefusalChangesNothing ==
  [][\A l \in LoopIds :
       /\ loop[l].pc = "fanout"
       /\ loop'[l].pc = "fanout"
       /\ loop'[l].idx = loop[l].idx + 1
       => LET b == Head(loop[l].targets)
              w == wstate[b]
          IN  \/ ~w.is_logged_in
              \/ w.captcha_required
              \/ w.rate_limited_until # None /\ w.rate_limited_until > 0
              => /\ loop'[l].inflight = loop[l].inflight
                 /\ loop'[l].succ = loop[l].succ
                 /\ wstate'[b] = w
                 /\ \A kind \in TaskType : \A outcome \in ActionOutcomes(kind) :
                      /\ WorkerAfter(w, kind, outcome) = w
                      /\ ~WorkerResult(w, outcome)]_vars

\* C21, its case: the sync of a task called a registered worker that
\* requires a captcha, and the worker refused.
C21_Witness ==
  \E l \in LoopIds :
    /\ hist.event = "refused"
    /\ loop[l].pc = "fanout"
    /\ loop[l].idx = 1
    /\ loop[l].succ = 0
    /\ loop[l].inflight = {}
    /\ \E b \in BotIds : InQueue(workers, b) /\ wstate[b].captcha_required

\* C22: the dispatch loop's work on a SyncFollows task never consults the
\* RateLimiter and leaves every field of it as it was; the task is never
\* denied and never retried, and at the moment it is due and a worker is
\* active nothing the RateLimiter holds keeps its handler from running.
C22_SyncBypassesLimiter ==
  [][/\ \A l \in LoopIds :
          LET held == IF loop[l].task # None THEN loop[l].task ELSE loop'[l].task IN
          /\ loop'[l] # loop[l]
          /\ held # None
          /\ tasks[held].task_type = "sync_follows"
          => /\ rate_limiter' = rate_limiter
             /\ hist'.event # "denied"
             /\ tasks'[held].retry_count = 0
             /\ Executes(l) =>
                  /\ HandlerCheck("sync_follows", rate_limiter).result
                  /\ HandlerCheck("sync_follows", rate_limiter).rl = rate_limiter
                  /\ HandlerRecord("sync_follows", rate_limiter) = rate_limiter
                  /\ loop'[l].pc = "fanout"]_vars

\* C22, its case: a SyncFollows task was dispatched and completed at a moment
\* when Like, Retweet, Comment and Quote are all denied.
C22_Witness ==
  /\ hist.event = "returned"
  /\ hist.task # None
  /\ tasks[hist.task].task_type = "sync_follows"
  /\ tasks[hist.task].status = "completed"
  /\ ~can_perform_like(rate_limiter).result
  /\ ~can_perform_retweet(rate_limiter).result
  /\ ~can_perform_comment(rate_limiter).result
  /\ ~can_perform_quote(rate_limiter).result

\* C23: when a worker joins a pool of n eligible workers, the sync of its
\* add_worker calls follow_user 2n times, and so does the sync of the task
\* submitted for it when the pool is still the same: n follows of the new
\* worker, and one of each of the n workers.
C23_SyncFollowsBothWays ==
  /\ hist.joined.bot # None /\ hist.joined.existing = hist.joined.pool =>
       hist.joined.calls = 2 * hist.joined.existing
  /\ \A l \in LoopIds :
       LET t == loop[l].task IN
       /\ loop[l].pc = "fanout"
       /\ tasks[t].task_type = "sync_follows"
       /\ tasks[t].payload.new_bot_id # None
       /\ InQueue(workers, tasks[t].payload.new_bot_id)
       /\ loop[l].idx = 0
       /\ Len(get_active_workers(workers, wstate)) = Len(workers)
       => loop[l].n = 2 * (Len(workers) - 1)

\* C24: a Pending task that waits in the queue can be cancelled: the
\* scheduler has a step that moves it to Cancelled; and a Cancelled task is
\* not dispatched.
C24_PendingCanBeCancelled ==
  \A t \in DOMAIN tasks :
    /\ tasks[t].status = "pending" /\ InQueue(task_queue, t) =>
         ENABLED (Next /\ tasks'[t].status = "cancelled")
    /\ tasks[t].status = "cancelled" =>
         \A l \in LoopIds : ~(loop[l].pc = "fanout" /\ loop[l].task = t)

\* C25: every pass of the periodic cleanup removes from active_tasks every
\* task that completed more than the retention window (1 hour) ago, whatever
\* other terminal task is tracked.
C25_CleanupRemovesExpired ==
  [][CleanupPass =>
       \A t \in active_tasks :
         tasks[t].status = "completed" /\ tasks[t].completed_at > RetentionMinutes
           => t \notin active_tasks']_vars

\* C26: any two submissions have distinct task ids, also two of the same
\* kind within one second, so that every queued task is in active_tasks.
C26_DistinctTaskIds ==
  /\ \A t, u \in DOMAIN tasks : t # u => tasks[t].id # tasks[u].id
  /\ \A i \in 1..Len(task_queue) : task_queue[i] \in active_tasks

\* C27: every kind has a handler: a dispatched task of any kind, Unfollow
\* included, ends Failed only when its retries are used up, as the handled
\* kinds do when their workers fail.
C27_EveryKindIsHandled ==
  \A t \in DOMAIN tasks :
    tasks[t].task_type \in TaskType /\ tasks[t].status = "failed"
      /\ hist.dispatches[t] > 0 /\ hist.event # "raised"
      => tasks[t].retry_count = max_retries

\* C28: between two points where another coroutine can look, the status of
\* a task changes along one allowed edge, or along pending -> in_progress
\* and one further edge when the dispatch ends without suspending;
\* completed, failed and cancelled are left by no edge, and a task in one of
\* them is in no queue, held by no loop and not dispatched again.
C28_StatusTransitions ==
  [][\A t \in DOMAIN tasks :
       LET a == tasks[t].status
           b == tasks'[t].status
           C28_Edges ==
             { << "pending", "in_progress" >>, << "in_progress", "completed" >>,
               << "in_progress", "pending" >>, << "in_progress", "failed" >>,
               << "pending", "cancelled" >> }
       IN
       /\ a # b =>
            \/ << a, b >> \in C28_Edges
            \/ /\ << a, "in_progress" >> \in C28_Edges
               /\ << "in_progress", b >> \in C28_Edges
       /\ b \in {"completed", "failed", "cancelled"} =>
            /\ ~InQueue(task_queue', t)
            /\ ~InQueue(putters', t)
            /\ t \notin woken'
            /\ \A l \in LoopIds : loop'[l].task # t
       /\ a \in {"completed", "failed", "cancelled"} =>
            hist'.dispatches[t] = hist.dispatches[t]]_vars

C28_Witness ==
  /\ \E t \in DOMAIN tasks :
       tasks[t].status = "failed" /\ tasks[t].retry_count = max_retries
  /\ \E t \in DOMAIN tasks :
       tasks[t].status = "completed" /\ tasks[t].retry_count > 0

C30_LimiterReopens ==
  /\ rate_limiter.like_cycle_start # None
       /\ rate_limiter.like_cycle_start > rate_limits.like_break
       /\ rate_limiter.like_last_action >= rate_limits.like_break
     => LET chk == can_perform_like(rate_limiter) IN
        /\ chk.result
        /\ chk.rl.like_cycle_start = None
        /\ record_like_action(chk.rl).like_cycle_start = 0
  /\ rate_limiter.retweet_cycle_start # None
       /\ rate_limiter.retweet_cycle_start > rate_limits.like_break
       /\ rate_limiter.retweet_last_action >= rate_limits.like_break
     => LET chk == can_perform_retweet(rate_limiter) IN
        /\ chk.result
        /\ chk.rl.retweet_cycle_start = None
        /\ record_retweet_action(chk.rl).retweet_cycle_start = 0
  /\ rate_limiter.quote_cycle_start # None
       /\ rate_limiter.quote_cycle_start > rate_limits.quote_max
       /\ rate_limiter.quote_last_action >= rate_limits.quote_min
     => LET chk == can_perform_quote(rate_limiter) IN
        /\ chk.result
        /\ chk.rl.quote_cycle_start = None
        /\ record_quote_action(chk.rl).quote_cycle_start = 0

\* C31: the loop is never left waiting in the put of a task it took from its
\* own queue (a task not yet due, or a retried one) while the queue is full
\* and no other loop is there to take a task from it.
C31_LoopNeverStuckInPut ==
  \A l \in LoopIds :
    ~ /\ loop[l].pc \in {"putback", "requeue"}
      /\ InQueue(putters, LoopPutter(l))
      /\ Len(task_queue) = TASK_QUEUE_SIZE
      /\ \A m \in LoopIds \ {l} :
           \/ loop[m].pc \in {"idle", "done"}
           \/ loop[m].pc \in {"putback", "requeue"} /\ InQueue(putters, LoopPutter(m))

\* C32: an action that ends in an error that is neither a rate limit nor a
\* captcha leaves is_logged_in, captcha_required and rate_limited_until of
\* its worker as they were; a rate-limit error changes rate_limited_until
\* and no other field, a captcha error captcha_required and no other field;
\* no other worker is changed.
C32_ErrorFrame ==
  [][\A l \in LoopIds : \A b \in BotIds :
       /\ \A outcome \in {"error", "auth_rejected"} :
            WorkerReturn(l, b, outcome) => wstate'[b] = wstate[b]
       /\ \A outcome \in {"rate_limit", "spam_226"} :
            WorkerReturn(l, b, outcome) =>
              /\ wstate'[b] = [wstate[b] EXCEPT
                                 !.rate_limited_until = wstate'[b].rate_limited_until]
              /\ wstate'[b].rate_limited_until # None
       /\ WorkerReturn(l, b, "captcha") =>
            /\ wstate'[b] = [wstate[b] EXCEPT !.captcha_required = TRUE]
       /\ \A outcome \in {"error", "auth_rejected", "rate_limit", "spam_226",
                           "captcha"} :
            WorkerReturn(l, b, outcome) =>
              \A o \in BotIds \ {b} : wstate'[o] = wstate[o]]_vars

\* C32, its case: the fan-out over one worker returned without a success
\* and the worker is as it was before the call, so that its action ended in
\* an error that is neither a rate limit nor a captcha.
C32_Witness ==
  /\ hist.event = "returned"
  /\ hist.n = 1
  /\ hist.k = 0
  /\ wstate[1].is_logged_in
  /\ ~wstate[1].captcha_required
  /\ wstate[1].rate_limited_until = None

\* C33: whatever the RateLimiter holds, recording a like or a retweet leaves
\* the result of can_perform_quote as it is, and recording a quote leaves the
\* results of can_perform_like and can_perform_retweet as they are.
C33_QuoteIndependent ==
  /\ can_perform_quote(record_like_action(rate_limiter)).result
       = can_perform_quote(rate_limiter).result
  /\ can_perform_quote(record_retweet_action(rate_limiter)).result
       = can_perform_quote(rate_limiter).result
  /\ can_perform_like(record_quote_action(rate_limiter)).result
       = can_perform_like(rate_limiter).result
  /\ can_perform_retweet(record_quote_action(rate_limiter)).result
       = can_perform_retweet(rate_limiter).result

\* C33, its case: a quote and a like were recorded, the quote so lately that
\* can_perform_quote is false while can_perform_like is true.
C33_Witness ==
  /\ rate_limiter.quote_last_action # None
  /\ rate_limiter.like_last_action # None
  /\ ~can_perform_quote(rate_limiter).result
  /\ can_perform_like(rate_limiter).result

\* C34: a due pending task in the queue, with an active worker and the
\* scheduler running, is dispatched in the end: the loop, having taken a task
\* that is not yet due, puts it back behind the others and goes on, and is
\* not left waiting in that put with nothing there to make room.
C34_DueTaskNotHeldUp ==
  \A l \in FirstLoop : \A t \in DOMAIN tasks :
    /\ is_running
    /\ get_active_workers(workers, wstate) # <<>>
    /\ InQueue(task_queue, t)
    /\ tasks[t].status = "pending"
    /\ tasks[t].scheduled_for <= 0
    => ~ /\ loop[l].pc = "putback"
         /\ InQueue(putters, LoopPutter(l))
         /\ Len(task_queue) = TASK_QUEUE_SIZE
         /\ \A m \in LoopIds \ {l} : loop[m].pc \in {"idle", "done"}

\* C35: a task is in the queue at most once, and every task in the queue is
\* pending.
C35_QueueHoldsPendingOnce ==
  \A t \in DOMAIN tasks :
    /\ Len(SelectSeq(task_queue, LAMBDA q : q = t)) <= 1
    /\ InQueue(task_queue, t) => tasks[t].status = "pending"

\* C35, its case: a task that failed once is back in the queue for its
\* retry while another task is in progress.
C35_Witness ==
  /\ \E t \in DOMAIN tasks :
       InQueue(task_queue, t) /\ tasks[t].retry_count > 0
  /\ \E t \in DOMAIN tasks : tasks[t].status = "in_progress"

\* C36: with start() called once, at most one task is in progress, and it
\* is the task the loop is executing.
C36_OneInProgress ==
  /\ Cardinality({ t \in DOMAIN tasks : tasks[t].status = "in_progress" }) <= 1
  /\ \A t \in DOMAIN tasks :
       tasks[t].status = "in_progress" =>
         \E l \in FirstLoop : loop[l].pc = "fanout" /\ loop[l].task = t

\* C36, its case: a task is in progress after another task was dispatched
\* and left in_progress.
C36_Witness ==
  \E t, u \in DOMAIN tasks :
    /\ t # u
    /\ tasks[t].status = "in_progress"
    /\ hist.dispatches[u] > 0
    /\ tasks[u].status \in {"pending", "completed", "failed"}

\* C37: when an exception leaves the handler of a task, the task is failed
\* at once, with the retry_count it had and whatever retries remain; it is
\* not put back into the queue, the loop goes on, and the task stays failed.
C37_RaiseFailsAtOnce ==
  [][\A l \in LoopIds :
       /\ FanOutRaise(l) =>
            LET t == loop[l].task IN
            /\ tasks'[t].status = "failed"
            /\ tasks'[t].retry_count = tasks[t].retry_count
            /\ ~InQueue(task_queue', t)
            /\ ~InQueue(putters', LoopPutter(l))
            /\ loop'[l].pc = "top"
       /\ \A t \in DOMAIN tasks :
            tasks[t].status = "failed" /\ tasks[t].retry_count < max_retries =>
              /\ tasks'[t] = tasks[t]
              /\ ~InQueue(task_queue', t)]_vars

\* C37, its case: the handler of a task that had failed once and was
\* dispatched again raised, and the task is failed with two retries left.
C37_Witness ==
  /\ hist.event = "raised"
  /\ hist.task \in DOMAIN tasks
  /\ tasks[hist.task].status = "failed"
  /\ tasks[hist.task].retry_count = 1
  /\ hist.dispatches[hist.task] = 2

\* C38: a sync_follows task is dispatched once at most, is never retried nor
\* failed, and is completed when its handler returns, also when no follow of
\* the sync succeeded or the sync failed inside.
C38_SyncAlwaysCompletes ==
  \A t \in DOMAIN tasks :
    tasks[t].task_type = "sync_follows" =>
      /\ tasks[t].retry_count = 0
      /\ tasks[t].status # "failed"
      /\ hist.dispatches[t] <= 1
      /\ hist.dispatches[t] = 1 =>
           \/ tasks[t].status = "completed"
           \/ /\ tasks[t].status = "in_progress"
              /\ \E l \in LoopIds : loop[l].pc = "fanout" /\ loop[l].task = t

\* C38, its case: a sync_follows task whose follows were attempted and all
\* failed is completed.
C38_Witness ==
  /\ hist.event = "returned"
  /\ hist.task \in DOMAIN tasks
  /\ tasks[hist.task].task_type = "sync_follows"
  /\ tasks[hist.task].status = "completed"
  /\ hist.n > 0
  /\ hist.k = 0

\* C39: when the status of a task changes (to in_progress, completed or
\* failed, or back to pending for a retry whose put is done), the record
\* Database.add_task stored for the task carries the new status, and the
\* record of a task whose status did not change stays as it is.
C39_RecordCarriesStatus ==
  [][\A t \in DOMAIN tasks :
       tasks[t].record # NoRecord =>
         IF tasks'[t].status # tasks[t].status
              \/ tasks'[t].retry_count # tasks[t].retry_count
         THEN (\A l \in LoopIds : ~(loop'[l].pc = "requeue" /\ loop'[l].task = t))
                => tasks'[t].record.status = tasks'[t].status
         ELSE tasks'[t].record = tasks[t].record
              \/ \E l \in LoopIds : loop[l].pc = "requeue" /\ loop[l].task = t]_vars

====
